---- MODULE Spec2Model ----
(***************************************************************************)
(* The websocket session protocol of ryzom (src/ryzom/consumers.py): one   *)
(* Consumer per channel token, the Clients / Subscriptions tables it       *)
(* writes, the per-consumer view attribute, and the channel-layer mailbox  *)
(* that carries `handle.ddp` events to a consumer.                         *)
(*                                                                         *)
(* Python dicts are records; a key is present iff it is in the DOMAIN.     *)
(* Strings are strings; the few non-string Python values that matter are   *)
(* the tagged constants PyNone .. PyEmptyTuple below.                      *)
(***************************************************************************)
EXTENDS Naturals, Sequences, FiniteSets, TLC

VARIABLES
    session,        \* channel -> lifecycle position of that channel's Consumer
    Clients,        \* rows of ryzom.models.Clients
    Subscriptions,  \* rows of ryzom.models.Subscriptions
    nextClientId,   \* next primary key of Clients
    nextSubId,      \* next primary key of Subscriptions
    view,           \* channel -> the Consumer's `view` attribute
    nextViewId,     \* identity of the next View instance constructed
    mailbox,        \* channel -> channel-layer messages not yet dispatched
    db,             \* records currently matched by the publication's query
    issued,         \* every sub_id ever sent in a subscribe Success
    pushed,         \* channel -> the DDP envelopes sent so far, where observed
    last            \* the handler call that produced this state

vars == <<session, Clients, Subscriptions, nextClientId, nextSubId, view,
          nextViewId, mailbox, db, issued, pushed, last>>

(********************************* bounds **********************************)
MaxSubs == 2
MaxViews == 2
MaxMailbox == 1
MaxRecords == 2
MaxBacklog == 2
MaxPushed == 4

Channels == {"c1", "c2"}
Records == 1..MaxRecords

(***************************** Python values *******************************)
PyNone == "<None>"
PyFalse == "<False>"
PyEmptyList == "<[]>"
PyEmptyTuple == "<()>"

FalsyValues == {"", PyNone, PyFalse, PyEmptyList, PyEmptyTuple}

Truthy(v) == v \notin FalsyValues

\* json.dumps on a leaf value: None -> null, False -> false, a tuple and a
\* list both become an array; a string keeps its content.
JsonDumps(v) ==
    CASE v = PyNone -> [json |-> "null"]
      [] v = PyFalse -> [json |-> "false"]
      [] v = PyEmptyList -> [json |-> "[]"]
      [] v = PyEmptyTuple -> [json |-> "[]"]
      [] OTHER -> [json |-> v]

HasKey(d, k) == k \in DOMAIN d

\* dict.get(k, None)
Get(d, k) == IF HasKey(d, k) THEN d[k] ELSE PyNone

(***************************** configuration *******************************)
\* settings.DDP_URLPATTERNS: the ordered route table.  A pattern is the set
\* of urls its regex matches; "/a/1" is matched by both routes.
Urls == {"/a", "/a/1", "/b", "/zzz"}

ddp_urlpatterns ==
    << [pattern |-> {"/a", "/a/1"}, callback |-> "ViewA"],
       [pattern |-> {"/a/1", "/b"}, callback |-> "ViewB"] >>

\* settings.SERVER_METHODS: the names getattr(server_methods, name, None) finds.
server_methods == {"echo"}

\* What a registered method may return.
Returns == {"ok", PyNone, PyFalse, PyEmptyTuple}

\* Publications.objects: the publication names that exist.
Publications == {"tasks"}

(******************************* requests **********************************)
Opt(k, vs) == {<<>>} \cup {k :> v : v \in vs}

SubscribeParams ==
    { <<>>, [name |-> "tasks"], [_id |-> "root"],
      [name |-> "tasks", _id |-> "root"], [name |-> "tasks", _id |-> "list"],
      [name |-> "nopub", _id |-> "root"] }

MethodParams ==
    { <<>>, [name |-> "echo"], [params |-> "x"],
      [name |-> "echo", params |-> "x"],
      [name |-> "nometh", params |-> "x"], [name |-> "nometh"] }

GeturlParams == {<<>>} \cup {[url |-> u] : u \in Urls}

UnsubscribeParams == {<<>>, [name |-> "tasks"]}

ParamsFor(t) ==
    CASE t = [type |-> "subscribe"] -> SubscribeParams
      [] t = [type |-> "method"] -> MethodParams
      [] t = [type |-> "geturl"] -> GeturlParams
      [] t = [type |-> "unsubscribe"] -> UnsubscribeParams
      [] OTHER -> {<<>>}

\* The envelopes a client may send: every key may be missing, the `_id` may
\* be the empty string, the type may be one the server does not know.
Requests ==
    UNION { { i @@ t @@ p : p \in Opt("params", ParamsFor(t)) } :
            <<i, t>> \in Opt("_id", {"", "1", "2"})
                         \X Opt("type", {"subscribe", "unsubscribe", "method",
                                         "geturl", "login"}) }

(************************* outbound envelopes ******************************)
ErrorMsg_Uncorrelated(id, name, message) ==
    [type |-> "Error", params |-> [name |-> name, message |-> message]]

\* {'_id': ..., 'type': 'Error', 'params': {'name': ..., 'message': ...}}
\* An f-string is the sequence of its parts; a plain string has one part.
ErrorMsg(id, name, message) ==
    [_id |-> id, type |-> "Error",
     params |-> [name |-> name, message |-> message]]

\* What one handler call does: the envelopes it passes to self.send in order,
\* the collaborators it invokes in order, the exception it ends with, and the
\* state it leaves.
NoEffect ==
    [sent |-> <<>>, calls |-> <<>>, exc |-> "none",
     Subscriptions |-> Subscriptions, nextSubId |-> nextSubId,
     mailbox |-> mailbox, view |-> view, nextViewId |-> nextViewId,
     issued |-> issued]

Send(e, msg) == [e EXCEPT !.sent = Append(@, msg)]
Call(e, c) == [e EXCEPT !.calls = Append(@, c)]
Raise(e, x) == [e EXCEPT !.exc = x]

(**************************** recv_geturl **********************************)
\* The last route matching to_url, 0 when none does.
FirstMatch_Last(to_url, i) ==
    IF \A j \in 1..Len(ddp_urlpatterns) : to_url \notin ddp_urlpatterns[j].pattern
    THEN 0
    ELSE CHOOSE j \in 1..Len(ddp_urlpatterns) :
           /\ to_url \in ddp_urlpatterns[j].pattern
           /\ \A k \in (j + 1)..Len(ddp_urlpatterns) :
                to_url \notin ddp_urlpatterns[k].pattern

RECURSIVE FirstMatch(_, _)
\* for url in ddp_urlpatterns: if url.pattern.match(to_url): ...; break
\* The index of the first route matching to_url from i on, 0 when none does.
FirstMatch(to_url, i) ==
    IF i > Len(ddp_urlpatterns) THEN 0
    ELSE IF to_url \in ddp_urlpatterns[i].pattern THEN i
    ELSE FirstMatch(to_url, i + 1)

NoView == [cls |-> "None"]

\* self.view.render(): the markup of a view, a function of its class and path.
Render(v) == [markup |-> <<v.cls, v.path>>]

SameRoute_Never(cview, callback) == FALSE

\* if cview and isinstance(cview, url.callback)
SameRoute(cview, callback) == cview # NoView /\ cview.cls = callback

Teardown_Skipped(e, cview) == e

\* if cview: cview.ondestroy()
Teardown(e, cview) ==
    IF cview # NoView
    THEN Call(e, [fn |-> "ondestroy", view |-> cview.id])
    ELSE e

recv_geturl(c, data, nav) ==
    LET e0 == Call(NoEffect, [fn |-> "recv_geturl"]) IN
    IF ~HasKey(data, "params") \/ ~HasKey(data.params, "url")
    THEN Raise(e0, "KeyError")
    ELSE
      LET to_url == data.params.url
          i == FirstMatch(to_url, 1)
          cview == view[c]
      IN
      IF i = 0 THEN e0
      ELSE IF SameRoute(cview, ddp_urlpatterns[i].callback)
      THEN
        LET e1 == Call(e0, [fn |-> "onurl", view |-> cview.id,
                            url |-> to_url, ret |-> nav])
        IN IF nav
           THEN Send([e1 EXCEPT !.view[c].path = to_url],
                     [_id |-> data._id, type |-> "Success",
                      params |-> JsonDumps(PyEmptyList)])
           ELSE e1
      ELSE
        LET e1 == Teardown(e0, cview)
            newview == [cls |-> ddp_urlpatterns[i].callback,
                        id |-> nextViewId, channel |-> c, path |-> to_url]
            e2 == Call(Call(e1, [fn |-> "callback", view |-> nextViewId,
                                 cls |-> newview.cls, channel |-> c]),
                       [fn |-> "oncreate", view |-> nextViewId,
                        url |-> to_url])
            e3 == Call(e2, [fn |-> "render", view |-> nextViewId])
        IN Send([e3 EXCEPT !.view[c] = newview,
                           !.nextViewId = nextViewId + 1],
                [_id |-> data._id, type |-> "Success",
                 params |-> Render(newview)])

(**************************** recv_method **********************************)
MethodReply_NoneIsFailure(id, ret) ==
    IF ret # PyNone
    THEN [_id |-> id, type |-> "Success", params |-> JsonDumps(ret)]
    ELSE [_id |-> id, type |-> "Error", params |-> JsonDumps(ret)]

\* if ret: Success with ret as params, else: Error with ret as params
MethodReply(id, ret) ==
    IF Truthy(ret)
    THEN [_id |-> id, type |-> "Success", params |-> JsonDumps(ret)]
    ELSE [_id |-> id, type |-> "Error", params |-> JsonDumps(ret)]

recv_method(c, data, ret) ==
    LET e0 == Call(NoEffect, [fn |-> "recv_method"]) IN
    IF ~HasKey(data, "params") \/ ~HasKey(data.params, "name")
    THEN Raise(e0, "KeyError")
    ELSE
      LET params == data.params IN
      IF params.name \notin server_methods
      THEN Send(e0, ErrorMsg(data._id, "Not found",
                             <<"Method ", params.name, " not found">>))
      ELSE IF ~HasKey(params, "params")
      THEN Raise(e0, "KeyError")
      ELSE
        LET e1 == Call(e0, [fn |-> "method", name |-> params.name,
                            arg |-> params.params, ret |-> ret])
        IN Send(e1, MethodReply(data._id, ret))

(************************** recv_unsubscribe *******************************)
recv_unsubscribe_Uncorrelated(c, data) ==
    LET e0 == Call(NoEffect, [fn |-> "recv_unsubscribe"]) IN
    IF ~HasKey(data, "params") \/ ~HasKey(data.params, "name")
    THEN Raise(e0, "KeyError")
    ELSE Send(e0, [type |-> "unsubscribed", message |-> "Got unsub",
                   params |-> [name |-> data.params.name]])

recv_unsubscribe_Removes(c, data) ==
    LET e0 == Call(NoEffect, [fn |-> "recv_unsubscribe"]) IN
    IF ~HasKey(data, "params") \/ ~HasKey(data.params, "name")
    THEN Raise(e0, "KeyError")
    ELSE Send([e0 EXCEPT !.Subscriptions =
                           {s \in @ : s.publication # data.params.name}],
              [_id |-> data._id, type |-> "unsubscribed",
               message |-> "Got unsub",
               params |-> [name |-> data.params.name]])

recv_unsubscribe(c, data) ==
    LET e0 == Call(NoEffect, [fn |-> "recv_unsubscribe"]) IN
    IF ~HasKey(data, "params") \/ ~HasKey(data.params, "name")
    THEN Raise(e0, "KeyError")
    ELSE Send(e0, [_id |-> data._id, type |-> "unsubscribed",
                   message |-> "Got unsub",
                   params |-> [name |-> data.params.name]])

(*************************** recv_subscribe ********************************)
RECURSIVE FirstMissing(_, _, _)
\* for key in ['name', '_id']: if key not in params: ...; return
\* The first key of keys, from i on, that params lacks; PyNone when none.
FirstMissing(params, keys, i) ==
    IF i > Len(keys) THEN PyNone
    ELSE IF ~HasKey(params, keys[i]) THEN keys[i]
    ELSE FirstMissing(params, keys, i + 1)

SubscriptionKeys_Reversed == <<"_id", "name">>

\* for key in ['name', '_id']
SubscriptionKeys == <<"name", "_id">>

RECURSIVE InitEvents(_, _)
\* Subscriptions.init(): the first full scan of the publication, one
\* `inserted` event per record matching now, in the query's order.
InitEvents(parent, r) ==
    IF r > MaxRecords THEN <<>>
    ELSE (IF r \in db
          THEN << [type |-> "handle.ddp",
                   params |-> [type |-> "inserted",
                               instance |-> [_id |-> r, parent |-> parent]]] >>
          ELSE <<>>)
         \o InitEvents(parent, r + 1)

NewSubscription_ParentIsName(params, client) ==
    [id |-> nextSubId, publication |-> params.name, parent |-> params.name,
     client |-> client.id]

\* Subscriptions(publication=pub, parent=params['_id'], client=client),
\* its id set by save()
NewSubscription(params, client) ==
    [id |-> nextSubId, publication |-> params.name, parent |-> params._id,
     client |-> client.id]

recv_subscribe(c, data) ==
    LET e0 == Call(NoEffect, [fn |-> "recv_subscribe"]) IN
    IF ~HasKey(data, "params") THEN Raise(e0, "KeyError")
    ELSE
      LET params == data.params
          rows == {cl \in Clients : cl.channel = c}
          key == FirstMissing(params, SubscriptionKeys, 1)
      IN
      \* Clients.objects.get raises unless exactly one row matches
      IF rows = {} THEN Raise(e0, "DoesNotExist")
      ELSE IF Cardinality(rows) > 1 THEN Raise(e0, "MultipleObjectsReturned")
      ELSE IF key # PyNone
      THEN Send(e0, ErrorMsg(data._id, "Bad format",
                             <<"Subscription ", key, " not found">>))
      \* `if not client` never holds: a model instance is truthy
      ELSE IF params.name \notin Publications THEN Raise(e0, "DoesNotExist")
      ELSE
        LET client == CHOOSE cl \in rows : TRUE
            sub == NewSubscription(params, client)
            e1 == Call(Call(e0, [fn |-> "init", parent |-> sub.parent,
                                 publication |-> sub.publication]),
                       [fn |-> "save", id |-> sub.id])
        IN Send([e1 EXCEPT
                   !.mailbox[c] = @ \o InitEvents(sub.parent, 1),
                   !.Subscriptions = @ \cup {sub},
                   !.nextSubId = nextSubId + 1,
                   !.issued = @ \cup {sub.id}],
                [_id |-> data._id, type |-> "Success",
                 params |-> [name |-> params.name, sub_id |-> sub.id]])

(******************************* receive ***********************************)
KnownTypes_Login == {"subscribe", "unsubscribe", "method", "geturl", "login"}

\* if msg_type in ['subscribe', 'unsubscribe', 'method', 'geturl']
KnownTypes == {"subscribe", "unsubscribe", "method", "geturl"}

\* The types t for which the Consumer defines a method recv_<t>.
RecvHandlers == {"geturl", "method", "subscribe", "unsubscribe"}

\* func = getattr(self, f'recv_{msg_type}', None); if func: func(data)
Handler(c, data, ret, nav) ==
    CASE data.type = "subscribe" -> recv_subscribe(c, data)
      [] data.type = "unsubscribe" -> recv_unsubscribe(c, data)
      [] data.type = "method" -> recv_method(c, data, ret)
      [] data.type = "geturl" -> recv_geturl(c, data, nav)
      [] OTHER -> NoEffect

Dropped_Reported(data) ==
    Send(NoEffect, ErrorMsg(PyNone, "Bad message", <<"message _id not found">>))

\* if not data.get('_id', None): return
Dropped(data) == NoEffect

BadFormat_Untyped(data) ==
    ErrorMsg(Get(data, "_id"), "Bad message", <<"\"params\" key not found">>)

\* except KeyError: the one reply for every key a handler did not find
BadFormat(data) ==
    ErrorMsg(Get(data, "_id"), "Bad format", <<"\"params\" key not found">>)

Caught_Reraised(e, data) ==
    IF e.exc = "KeyError" THEN Send(e, BadFormat(data)) ELSE e

\* try: func(data) / except KeyError: send the Bad format reply
Caught(e, data) ==
    IF e.exc = "KeyError" THEN Send(Raise(e, "none"), BadFormat(data)) ELSE e

receive(c, data, ret, nav) ==
    IF ~Truthy(Get(data, "_id")) THEN Dropped(data)
    ELSE IF ~HasKey(data, "type")
    THEN Send(NoEffect, ErrorMsg(data._id, "Bad message",
                                 <<"message type not found">>))
    ELSE IF data.type \in KnownTypes
    THEN Caught(IF data.type \in RecvHandlers
                THEN Handler(c, data, ret, nav)
                ELSE NoEffect, data)
    ELSE Send(NoEffect, ErrorMsg(data._id, "Bad message type",
                                 <<data.type, " not recognized">>))

(****************************** handle_ddp *********************************)
insert_component(data, change) ==
    [type |-> "DDP",
     params |-> [type |-> IF ~change THEN "insert" ELSE "change",
                 params |-> data.instance]]

remove_component_Whole(data) ==
    [type |-> "DDP", params |-> [type |-> "remove", params |-> data]]

remove_component(data) ==
    [type |-> "DDP",
     params |-> [type |-> "remove",
                 params |-> [_id |-> data._id, parent |-> data.parent]]]

handle_ddp_Swapped(data) ==
    IF data.params.type = "inserted"
    THEN <<insert_component(data.params, TRUE)>>
    ELSE IF data.params.type = "changed"
    THEN <<insert_component(data.params, FALSE)>>
    ELSE IF data.params.type = "removed"
    THEN <<remove_component(data.params)>>
    ELSE <<>>

\* The envelopes handle_ddp sends for one channel-layer message.
handle_ddp(data) ==
    IF data.params.type = "inserted"
    THEN <<insert_component(data.params, FALSE)>>
    ELSE IF data.params.type = "changed"
    THEN <<insert_component(data.params, TRUE)>>
    ELSE IF data.params.type = "removed"
    THEN <<remove_component(data.params)>>
    ELSE <<>>

(************************* the registries (ORM) ****************************)
\* Clients.objects.create(channel=..., user=...)
CreateClient(channel, user) ==
    Clients \cup {[id |-> nextClientId, channel |-> channel, user |-> user]}

DeleteClients_Unfiltered(channel) == {}

DeleteClients_Nothing(channel) == Clients

\* Clients.objects.filter(channel=...).delete(): the rows left
DeleteClients(channel) == {cl \in Clients : cl.channel # channel}

\* on_delete=CASCADE: the Subscriptions left once only `clients` remain
Cascade(clients) ==
    {s \in Subscriptions : \E cl \in clients : cl.id = s.client}

(******************************** actions **********************************)
\* async_to_sync(get_user)(self.scope): a function of the connection's scope
get_user(c) == IF c = "c1" THEN "alice" ELSE "AnonymousUser"

Users == {"alice"}

\* connect(): accept, create the Clients row, send Connected.
Connect(c) ==
    /\ session[c] = "Disconnected"
    /\ Clients' = CreateClient(c, IF get_user(c) \in Users THEN get_user(c)
                                   ELSE PyNone)
    /\ nextClientId' = nextClientId + 1
    /\ session' = [session EXCEPT ![c] = "Connected"]
    /\ last' = [op |-> "connect", channel |-> c, data |-> <<>>,
                sent |-> <<[type |-> "Connected"]>>, calls |-> <<>>,
                exc |-> "none"]
    /\ UNCHANGED <<Subscriptions, nextSubId, view, nextViewId, mailbox, db,
                   issued, pushed>>

\* disconnect(close_code): delete this channel's Clients rows; the delete
\* cascades to their Subscriptions.  The transport may report the close of a
\* channel whose row is already gone.
Disconnect(c) ==
    /\ session[c] \in {"Connected", "Closed"}
    /\ Clients' = DeleteClients(c)
    /\ Subscriptions' = Cascade(DeleteClients(c))
    /\ session' = [session EXCEPT ![c] = "Closed"]
    /\ last' = [op |-> "disconnect", channel |-> c, data |-> <<>>,
                sent |-> <<>>,
                calls |-> <<[fn |-> "delete",
                             deleted |-> Cardinality(Clients
                                                     \ DeleteClients(c))]>>,
                exc |-> "none"]
    /\ UNCHANGED <<nextClientId, nextSubId, view, nextViewId, mailbox, db,
                   issued, pushed>>

UsesMethod(data) == HasKey(data, "type") /\ data.type = "method"
UsesNavigate(data) == HasKey(data, "type") /\ data.type = "geturl"
Consults(e, fn) == \E i \in 1..Len(e.calls) : e.calls[i].fn = fn

\* receive(text_data) on the Consumer of channel c.  An exception that
\* leaves receive ends the Consumer: nothing dispatches to it again, and
\* disconnect is not run for it.
Receive(c, data) ==
    /\ session[c] = "Connected"
    /\ \E ret \in Returns, nav \in BOOLEAN :
         \* one choice where the call consults neither collaborator
         /\ UsesMethod(data) \/ ret = PyNone
         /\ UsesNavigate(data) \/ nav = FALSE
         /\ \E e \in {receive(c, data, ret, nav)} :
           /\ Consults(e, "method") \/ ret = PyNone
           /\ Consults(e, "onurl") \/ nav = FALSE
           /\ e.nextSubId # nextSubId => nextSubId <= MaxSubs
           /\ e.nextViewId # nextViewId => nextViewId <= MaxViews
           /\ Subscriptions' = e.Subscriptions
           /\ nextSubId' = e.nextSubId
           /\ mailbox' = e.mailbox
           /\ view' = e.view
           /\ nextViewId' = e.nextViewId
           /\ issued' = e.issued
           /\ session' = IF e.exc = "none" THEN session
                         ELSE [session EXCEPT ![c] = "Crashed"]
           /\ last' = [op |-> "receive", channel |-> c, data |-> data,
                       sent |-> e.sent, calls |-> e.calls, exc |-> e.exc]
    /\ UNCHANGED <<Clients, nextClientId, db, pushed>>

Alive_Always(c) == TRUE

\* The Consumer of channel c is running: it was connected, its disconnect has
\* not run and no exception has left one of its handlers.  A Consumer that
\* is not running is dispatched nothing more.
Alive(c) == session[c] = "Connected"

\* The channel layer dispatches the oldest `handle.ddp` message of channel c
\* to its Consumer, which passes it to handle_ddp.
Dispatch(c) ==
    /\ Alive(c)
    /\ mailbox[c] # <<>>
    /\ mailbox' = [mailbox EXCEPT ![c] = Tail(@)]
    /\ last' = [op |-> "handle_ddp", channel |-> c, data |-> Head(mailbox[c]),
                sent |-> handle_ddp(Head(mailbox[c])), calls |-> <<>>,
                exc |-> "none"]
    /\ UNCHANGED <<session, Clients, Subscriptions, nextClientId, nextSubId,
                   view, nextViewId, db, issued>>

HandleDdp(c) == Dispatch(c) /\ UNCHANGED pushed

\* The same step with the client's side of the socket observed: what
\* handle_ddp sends is appended to the channel's log.
HandleDdpObserved(c) ==
    /\ Len(pushed[c]) < MaxPushed
    /\ Dispatch(c)
    /\ pushed' = [pushed EXCEPT ![c] = @ \o handle_ddp(Head(mailbox[c]))]

RECURSIVE PublishEvents(_, _, _, _)
\* The events one change of record r raises for the Subscriptions of the
\* Clients row of channel c, in the order of the rows' ids from id on.
PublishEvents(c, t, r, id) ==
    IF id >= nextSubId THEN <<>>
    ELSE
      LET subs == {s \in Subscriptions :
                     /\ s.id = id
                     /\ \E cl \in Clients : cl.id = s.client /\ cl.channel = c}
      IN (IF subs = {} THEN <<>>
          ELSE LET s == CHOOSE x \in subs : TRUE IN
               << [type |-> "handle.ddp",
                   params |->
                     IF t = "removed"
                     THEN [type |-> t, _id |-> r, parent |-> s.parent]
                     ELSE [type |-> t,
                           instance |-> [_id |-> r, parent |-> s.parent]]] >>)
         \o PublishEvents(c, t, r, id + 1)

\* The publication's data changes: record r starts to match, changes, or
\* stops matching, and every Subscription is told through its Client's channel.
Publish(t, r, cap) ==
    /\ IF t = "inserted" THEN r \notin db ELSE r \in db
    /\ \A c \in Channels :
         Len(mailbox[c] \o PublishEvents(c, t, r, 1)) <= cap
    /\ db' = CASE t = "inserted" -> db \cup {r}
              [] t = "removed" -> db \ {r}
              [] OTHER -> db
    /\ mailbox' = [c \in Channels |-> mailbox[c] \o PublishEvents(c, t, r, 1)]
    /\ last' = [op |-> "publish", channel |-> "", data |-> [type |-> t, _id |-> r],
                sent |-> <<>>, calls |-> <<>>, exc |-> "none"]
    /\ UNCHANGED <<session, Clients, Subscriptions, nextClientId, nextSubId,
                   view, nextViewId, issued, pushed>>

Init ==
    /\ session = [c \in Channels |-> "Disconnected"]
    /\ Clients = {}
    /\ Subscriptions = {}
    /\ nextClientId = 1
    /\ nextSubId = 1
    /\ view = [c \in Channels |-> NoView]
    /\ nextViewId = 1
    /\ mailbox = [c \in Channels |-> <<>>]
    /\ db = {}
    /\ issued = {}
    /\ pushed = [c \in Channels |-> <<>>]
    /\ last = [op |-> "none", channel |-> "", data |-> <<>>, sent |-> <<>>,
               calls |-> <<>>, exc |-> "none"]

NextOn(chans, reqs, recs) ==
    \/ \E c \in chans : Connect(c)
    \/ \E c \in chans : Disconnect(c)
    \/ \E c \in chans, data \in reqs : Receive(c, data)
    \/ \E c \in chans : HandleDdp(c)
    \/ \E t \in {"inserted", "changed", "removed"}, r \in recs :
         Publish(t, r, MaxMailbox)

\* One connection, every envelope a client may send, one record.
Next == NextOn({"c1"}, Requests, {1})

Spec == Init /\ [][Next]_vars

\* Every connection, the subscribe and unsubscribe traffic that reaches the
\* registries.
RegistryRequests ==
    {r \in Requests : /\ HasKey(r, "_id") /\ r._id \in {"1", "2"}
                      /\ HasKey(r, "type")
                      /\ r.type \in {"subscribe", "unsubscribe"}
                      /\ HasKey(r, "params")}

NextRegistry == NextOn(Channels, RegistryRequests, Records)

SpecRegistry == Init /\ [][NextRegistry]_vars

\* Every connection, the geturl traffic that reaches the route table.
ViewRequests ==
    {r \in Requests : /\ HasKey(r, "_id") /\ r._id = "1"
                      /\ HasKey(r, "type") /\ r.type = "geturl"
                      /\ HasKey(r, "params") /\ HasKey(r.params, "url")}

NextViews ==
    \/ \E c \in Channels : Connect(c)
    \/ \E c \in Channels : Disconnect(c)
    \/ \E c \in Channels, data \in ViewRequests : Receive(c, data)

SpecViews == Init /\ [][NextViews]_vars

\* One connection seen from the client's side of the socket: well-formed
\* subscribe and unsubscribe requests, the publication's changes, and every
\* push logged as it is sent.
PushRequests ==
    {r \in RegistryRequests : /\ r._id = "1"
                              /\ r.params \in {[name |-> "tasks", _id |-> "root"],
                                                [name |-> "tasks", _id |-> "list"],
                                                [name |-> "tasks"]}}

NextPush ==
    \/ Connect("c1")
    \/ Disconnect("c1")
    \/ \E data \in PushRequests : Receive("c1", data)
    \/ HandleDdpObserved("c1")
    \/ \E t \in {"inserted", "changed", "removed"}, r \in Records :
         Publish(t, r, MaxBacklog)

SpecPush == Init /\ [][NextPush]_vars

\* The `handle.ddp` messages a sender may address to a channel: the three
\* kinds handle_ddp knows, a `removed` that carries more than the two fields
\* forwarded, and a kind handle_ddp does not know.
DdpEvents ==
    {[type |-> "handle.ddp", params |-> p] :
       p \in {[type |-> "inserted", instance |-> [_id |-> 1, parent |-> "root"]],
              [type |-> "changed", instance |-> [_id |-> 1, parent |-> "root"]],
              [type |-> "removed", _id |-> 1, parent |-> "root"],
              [type |-> "removed", _id |-> 1, parent |-> "root",
               instance |-> [_id |-> 1, parent |-> "root"]],
              [type |-> "moved", instance |-> [_id |-> 1, parent |-> "root"]]}}

\* channel_layer.send(channel, ev): the message joins the channel's mailbox.
Deliver(c, ev) ==
    /\ Len(mailbox[c]) < MaxMailbox
    /\ mailbox' = [mailbox EXCEPT ![c] = Append(@, ev)]
    /\ last' = [op |-> "deliver", channel |-> c, data |-> ev, sent |-> <<>>,
                calls |-> <<>>, exc |-> "none"]
    /\ UNCHANGED <<session, Clients, Subscriptions, nextClientId, nextSubId,
                   view, nextViewId, db, issued, pushed>>

\* Requests that give a connection a subscription and a view.
DdpRequests ==
    {r \in Requests : /\ HasKey(r, "_id") /\ r._id = "1"
                      /\ HasKey(r, "type") /\ HasKey(r, "params")
                      /\ \/ r.type = "subscribe"
                              /\ r.params = [name |-> "tasks", _id |-> "root"]
                         \/ r.type = "geturl" /\ r.params = [url |-> "/a"]}

NextDdp ==
    \/ Connect("c1")
    \/ Disconnect("c1")
    \/ \E data \in DdpRequests : Receive("c1", data)
    \/ \E ev \in DdpEvents : Deliver("c1", ev)
    \/ HandleDdp("c1")

SpecDdp == Init /\ [][NextDdp]_vars

\* One connection and every envelope that carries a usable `_id`, well
\* formed or not.
ErrorRequests == {r \in Requests : HasKey(r, "_id") /\ r._id = "1"}

NextErrors ==
    \/ Connect("c1")
    \/ Disconnect("c1")
    \/ \E data \in ErrorRequests : Receive("c1", data)

SpecErrors == Init /\ [][NextErrors]_vars

\* The channel layer discards the oldest message of a channel whose Consumer
\* has stopped: nobody reads that channel any more.
Expire(c) ==
    /\ session[c] \in {"Closed", "Crashed"}
    /\ mailbox[c] # <<>>
    /\ mailbox' = [mailbox EXCEPT ![c] = Tail(@)]
    /\ last' = [op |-> "expire", channel |-> c, data |-> Head(mailbox[c]),
                sent |-> <<>>, calls |-> <<>>, exc |-> "none"]
    /\ UNCHANGED <<session, Clients, Subscriptions, nextClientId, nextSubId,
                   view, nextViewId, db, issued, pushed>>

\* The pushes a publication run that chose its recipients before a
\* disconnect may still address to the channel afterwards.
RaceEvents ==
    {ev \in DdpEvents : /\ ev.params.type \in {"inserted", "removed"}
                        /\ DOMAIN ev.params # {"type", "_id", "parent",
                                                "instance"}}

\* Every connection: subscribe, pushes in flight, and disconnect at any
\* point among them.
RaceRequests ==
    {r \in DdpRequests : r.type = "subscribe"}

NextRace ==
    \/ \E c \in Channels : Connect(c)
    \/ \E c \in Channels : Disconnect(c)
    \/ \E c \in Channels, data \in RaceRequests : Receive(c, data)
    \/ \E c \in Channels, ev \in RaceEvents : Deliver(c, ev)
    \/ \E c \in Channels : HandleDdp(c)
    \/ \E c \in Channels : Expire(c)

SpecRace == Init /\ [][NextRace]_vars

\* The cleanup sweep another server process runs when it starts: it removes
\* every Clients row, those of sessions still connected elsewhere included.
ready ==
    /\ Clients' = {}
    /\ Subscriptions' = Cascade({})
    /\ last' = [op |-> "ready", channel |-> "", data |-> <<>>, sent |-> <<>>,
                calls |-> <<[fn |-> "delete",
                             deleted |-> Cardinality(Clients)]>>,
                exc |-> "none"]
    /\ UNCHANGED <<session, nextClientId, nextSubId, view, nextViewId,
                   mailbox, db, issued, pushed>>

\* Every connection, the subscribe traffic, and the sweep.
SweepRequests ==
    {r \in RegistryRequests : r._id = "1" /\ r.type = "subscribe"}

NextSweep ==
    \/ \E c \in Channels : Connect(c)
    \/ \E c \in Channels : Disconnect(c)
    \/ \E c \in Channels, data \in SweepRequests : Receive(c, data)
    \/ ready

SpecSweep == Init /\ [][NextSweep]_vars

(***************************************************************************)
(* Vocabulary of the properties: l is the record of one handler call.      *)
(***************************************************************************)
Received(l) == l.op = "receive"

CallCount(l, fn) ==
    Cardinality({i \in 1..Len(l.calls) : l.calls[i].fn = fn})

Invoked(l, fn) == CallCount(l, fn) > 0

NoHandlerInvoked(l) ==
    \A i \in 1..Len(l.calls) :
      l.calls[i].fn \notin {"recv_subscribe", "recv_unsubscribe",
                            "recv_method", "recv_geturl"}

\* The envelope is of a known type and carries the keys its type needs.
WellFormed(d) ==
    /\ HasKey(d, "type")
    /\ HasKey(d, "params")
    /\ CASE d.type = "subscribe" -> {"name", "_id"} \subseteq DOMAIN d.params
         [] d.type = "unsubscribe" -> {"name"} \subseteq DOMAIN d.params
         [] d.type = "method" -> {"name", "params"} \subseteq DOMAIN d.params
         [] d.type = "geturl" -> {"url"} \subseteq DOMAIN d.params
         [] OTHER -> FALSE

\* Exactly one envelope was sent, and it carries the request's `_id`.
OneCorrelatedReply(l) ==
    /\ Len(l.sent) = 1
    /\ HasKey(l.sent[1], "_id")
    /\ l.sent[1]._id = l.data._id

NoRoute(url) ==
    \A i \in 1..Len(ddp_urlpatterns) : url \notin ddp_urlpatterns[i].pattern

NavigateRejected(l) ==
    \E i \in 1..Len(l.calls) : l.calls[i].fn = "onurl" /\ ~l.calls[i].ret

PushesCarryNoId(l) ==
    l.op = "handle_ddp" => \A i \in 1..Len(l.sent) : ~HasKey(l.sent[i], "_id")

Unanswered(l) ==
    \/ l.data.type = "geturl" /\ NoRoute(l.data.params.url)
    \/ NavigateRejected(l)
    \/ l.data.type = "subscribe" /\ l.data.params.name \notin Publications

RowsOf(c) == {cl \in Clients : cl.channel = c}

(***************************************************************************)
(* C2: after connect() exactly one Clients row exists for the channel and  *)
(* `Connected` was sent; after disconnect() no row exists for it; and a    *)
(* disconnect() that finds no row of the channel raises nothing and leaves *)
(* Clients and Subscriptions as they were.                                 *)
(***************************************************************************)
C2_ConnectDisconnect ==
    /\ [](last.op = "connect"
            => /\ Cardinality(RowsOf(last.channel)) = 1
               /\ last.sent = <<[type |-> "Connected"]>>)
    /\ [](last.op = "disconnect"
            => RowsOf(last.channel) = {} /\ last.exc = "none")
    /\ [][(last'.op = "disconnect" /\ RowsOf(last'.channel) = {})
            => UNCHANGED <<Clients, Subscriptions>>]_vars

\* A second disconnect of a channel while another channel is connected.
C2_Witness ==
    /\ last.op = "disconnect"
    /\ last.calls[1].deleted = 0
    /\ Clients # {}

Owned(s, c) == \E cl \in Clients : cl.id = s.client /\ cl.channel = c

(***************************************************************************)
(* C3: every Subscriptions row refers to a Clients row that exists, in     *)
(* every reachable state, and disconnect of a channel removes every        *)
(* Subscriptions row its Clients row owned.                                *)
(***************************************************************************)
C3_NoSubscriptionOutlivesConnection ==
    /\ [](\A s \in Subscriptions : \E cl \in Clients : cl.id = s.client)
    /\ [][last'.op = "disconnect"
            => \A s \in Subscriptions :
                 Owned(s, last'.channel) => s \notin Subscriptions']_vars

\* A disconnect that removed a row and its subscription while a subscription
\* of the other connection stays.
C3_Witness ==
    /\ last.op = "disconnect"
    /\ last.calls[1].deleted = 1
    /\ Subscriptions # {}
    /\ \E id \in issued : \A s \in Subscriptions : s.id # id

(***************************************************************************)
(* C4: a receive call whose envelope has no `_id` key sends nothing,       *)
(* invokes no handler, and leaves Clients, Subscriptions and the view      *)
(* unchanged, whatever its type and params.                                *)
(***************************************************************************)
C4_NoIdIsDropped ==
    /\ []((Received(last) /\ ~HasKey(last.data, "_id"))
            => last.sent = <<>> /\ last.calls = <<>> /\ last.exc = "none")
    /\ [][(Received(last') /\ ~HasKey(last'.data, "_id"))
            => UNCHANGED <<Clients, Subscriptions, view>>]_vars

\* A subscribe that would have been served, had it carried an `_id`.
C4_Witness ==
    /\ Received(last)
    /\ ~HasKey(last.data, "_id")
    /\ WellFormed(last.data)
    /\ last.data.type = "subscribe"
    /\ last.data.params.name \in Publications

IdAndUnknownType(l) ==
    /\ Received(l)
    /\ HasKey(l.data, "_id")
    /\ HasKey(l.data, "type")
    /\ l.data.type \notin {"subscribe", "unsubscribe", "method", "geturl"}

BadMessageType(l) ==
    /\ l.sent = << [_id |-> l.data._id, type |-> "Error",
                    params |-> [name |-> "Bad message type",
                                message |-> <<l.data.type,
                                              " not recognized">>]] >>
    /\ NoHandlerInvoked(l)

(***************************************************************************)
(* C5 (as stated): a receive call with an `_id` and a type that is not one *)
(* of subscribe, unsubscribe, method, geturl sends exactly one envelope,   *)
(* Error 'Bad message type' / '<type> not recognized' with the input       *)
(* `_id`, and invokes no handler.                                          *)
(***************************************************************************)
C5_UnknownType == IdAndUnknownType(last) => BadMessageType(last)

(***************************************************************************)
(* C5 (amended): the same, for an `_id` that is not empty; an envelope     *)
(* whose `_id` is the empty string is dropped like one without `_id`.      *)
(***************************************************************************)
C5_UnknownTypeNonEmptyId ==
    IdAndUnknownType(last)
      => IF last.data._id # "" THEN BadMessageType(last)
         ELSE last.sent = <<>> /\ last.calls = <<>>

C5_Witness ==
    /\ IdAndUnknownType(last)
    /\ last.data._id = "2"
    /\ Len(last.sent) = 1

IdAndNoType(l) ==
    /\ Received(l)
    /\ HasKey(l.data, "_id")
    /\ ~HasKey(l.data, "type")

BadMessage(l) ==
    /\ l.sent = << [_id |-> l.data._id, type |-> "Error",
                    params |-> [name |-> "Bad message",
                                message |-> <<"message type not found">>]] >>
    /\ NoHandlerInvoked(l)

(***************************************************************************)
(* C6 (as stated): a receive call with an `_id` and no `type` key sends    *)
(* exactly one envelope, Error 'Bad message' / 'message type not found'    *)
(* with the input `_id`, invokes no handler, and changes no registry or    *)
(* view state.                                                             *)
(***************************************************************************)
C6_MissingType ==
    /\ [](IdAndNoType(last) => BadMessage(last))
    /\ [][IdAndNoType(last') => UNCHANGED <<Clients, Subscriptions, view>>]_vars

(***************************************************************************)
(* C6 (amended): the same, for an `_id` that is not empty; an envelope     *)
(* whose `_id` is the empty string is dropped like one without `_id`.      *)
(***************************************************************************)
C6_MissingTypeNonEmptyId ==
    /\ [](IdAndNoType(last)
            => IF last.data._id # "" THEN BadMessage(last)
               ELSE last.sent = <<>> /\ last.calls = <<>>)
    /\ [][IdAndNoType(last') => UNCHANGED <<Clients, Subscriptions, view>>]_vars

C6_Witness ==
    /\ IdAndNoType(last)
    /\ last.data._id = "1"
    /\ HasKey(last.data, "params")
    /\ Len(last.sent) = 1

\* The request went to the handler of its type.
Dispatched(l, t) ==
    /\ Received(l)
    /\ HasKey(l.data, "type")
    /\ l.data.type = t
    /\ l.calls # <<>>
    /\ l.calls[1].fn = CASE t = "subscribe" -> "recv_subscribe"
                          [] t = "unsubscribe" -> "recv_unsubscribe"
                          [] t = "method" -> "recv_method"
                          [] t = "geturl" -> "recv_geturl"

BadFormatReply(l) ==
    l.sent = << [_id |-> l.data._id, type |-> "Error",
                 params |-> [name |-> "Bad format",
                             message |-> <<"\"params\" key not found">>]] >>

Lacks(d, k) == ~HasKey(d.params, k)

\* A key the handler of the request's type expects is missing.
ExpectedKeyMissing(d) ==
    \/ ~HasKey(d, "params")
    \/ d.type = "geturl" /\ Lacks(d, "url")
    \/ d.type = "method" /\ (Lacks(d, "name") \/ Lacks(d, "params"))
    \/ d.type = "unsubscribe" /\ Lacks(d, "name")

\* A key the handler of the request's type looks up is missing.
LookedUpKeyMissing(d) ==
    \/ ~HasKey(d, "params")
    \/ d.type = "geturl" /\ Lacks(d, "url")
    \/ d.type = "method" /\ Lacks(d, "name")
    \/ d.type = "method" /\ d.params.name \in server_methods
         /\ Lacks(d, "params")
    \/ d.type = "unsubscribe" /\ Lacks(d, "name")

(***************************************************************************)
(* C7 (as stated): a request of a known type that lacks a key its handler  *)
(* expects (`params`; params.url for geturl; params.name or params.params  *)
(* for method; params.name for unsubscribe) gets exactly one envelope,     *)
(* Error 'Bad format' with the fixed message '"params" key not found' and  *)
(* the input `_id`, whichever key was missing.                             *)
(***************************************************************************)
C7_MissingKeyIsBadFormat ==
    \A t \in {"subscribe", "unsubscribe", "method", "geturl"} :
      (Dispatched(last, t) /\ ExpectedKeyMissing(last.data))
        => BadFormatReply(last)

(***************************************************************************)
(* C7 (amended): the same, except that a method request lacking            *)
(* params.params gets that reply only when params.name names a registered  *)
(* method; when it names none, the one envelope sent is Error 'Not found'  *)
(* / 'Method <name> not found', which carries the requested name.          *)
(***************************************************************************)
C7_LookedUpKeyIsBadFormat ==
    \A t \in {"subscribe", "unsubscribe", "method", "geturl"} :
      /\ (Dispatched(last, t) /\ LookedUpKeyMissing(last.data))
           => BadFormatReply(last)
      /\ (Dispatched(last, t) /\ ExpectedKeyMissing(last.data)
            /\ ~LookedUpKeyMissing(last.data))
           => last.sent =
                << [_id |-> last.data._id, type |-> "Error",
                    params |-> [name |-> "Not found",
                                message |-> <<"Method ", last.data.params.name,
                                              " not found">>]] >>

\* A registered method called without params.params.
C7_Witness ==
    /\ Dispatched(last, "method")
    /\ HasKey(last.data, "params")
    /\ last.data.params = [name |-> "echo"]
    /\ BadFormatReply(last)

SubscribeLacksKey(l) ==
    /\ Dispatched(l, "subscribe")
    /\ HasKey(l.data, "params")
    /\ (Lacks(l.data, "name") \/ Lacks(l.data, "_id"))

(***************************************************************************)
(* C8: a subscribe request whose params lacks `name` or `_id` gets exactly *)
(* one envelope, Error 'Bad format' / 'Subscription <key> not found',      *)
(* where <key> is `name` whenever `name` is missing and `_id` only when    *)
(* `name` is present; no Subscriptions row is created and the              *)
(* publication's initialization is not invoked.                            *)
(***************************************************************************)
C8_SubscribeMissingKey ==
    /\ [](SubscribeLacksKey(last)
            => /\ last.sent =
                    << [_id |-> last.data._id, type |-> "Error",
                        params |->
                          [name |-> "Bad format",
                           message |->
                             <<"Subscription ",
                               IF Lacks(last.data, "name") THEN "name"
                               ELSE "_id",
                               " not found">>]] >>
               /\ ~Invoked(last, "init")
               /\ ~Invoked(last, "save"))
    /\ [][SubscribeLacksKey(last') => UNCHANGED Subscriptions]_vars

\* Both keys are missing and the reply names `name`.
C8_Witness ==
    /\ SubscribeLacksKey(last)
    /\ Lacks(last.data, "name") /\ Lacks(last.data, "_id")
    /\ Len(last.sent) = 1
    /\ last.sent[1].params.message[2] = "name"

SubscribeServed(l) ==
    /\ Dispatched(l, "subscribe")
    /\ HasKey(l.data, "params")
    /\ ~Lacks(l.data, "name") /\ ~Lacks(l.data, "_id")
    /\ l.data.params.name \in Publications

\* The events are `inserted` pushes, one for each record of recs.
OneInsertedPerRecord(events, recs) ==
    /\ Len(events) = Cardinality(recs)
    /\ \A i \in 1..Len(events) :
         /\ events[i].type = "handle.ddp"
         /\ events[i].params.type = "inserted"
    /\ \A r \in recs :
         \E i \in 1..Len(events) : events[i].params.instance._id = r

(***************************************************************************)
(* C9: a subscribe request on a connected channel with params.name and     *)
(* params._id present and a publication of that name gets exactly one      *)
(* Success {name, sub_id} with the request's `_id`; afterwards one new     *)
(* Subscriptions row (this channel's Clients row, parent = params._id,     *)
(* that publication) exists; its sub_id was never issued before on any     *)
(* connection; the publication's initialization is invoked exactly once    *)
(* and emits one `inserted` push per record matching at that time.         *)
(***************************************************************************)
C9_SubscribeServed ==
    /\ [](SubscribeServed(last)
            => /\ Len(last.sent) = 1
               /\ DOMAIN last.sent[1] = {"_id", "type", "params"}
               /\ last.sent[1]._id = last.data._id
               /\ last.sent[1].type = "Success"
               /\ DOMAIN last.sent[1].params = {"name", "sub_id"}
               /\ last.sent[1].params.name = last.data.params.name
               /\ CallCount(last, "init") = 1
               /\ \E s \in Subscriptions :
                    /\ s.id = last.sent[1].params.sub_id
                    /\ s.parent = last.data.params._id
                    /\ s.publication = last.data.params.name
                    /\ Owned(s, last.channel))
    /\ [][SubscribeServed(last')
            => /\ last'.sent[1].params.sub_id \notin issued
               /\ \A s \in Subscriptions : s.id # last'.sent[1].params.sub_id
               /\ Subscriptions \subseteq Subscriptions'
               /\ Cardinality(Subscriptions') = Cardinality(Subscriptions) + 1
               /\ \E events \in {SubSeq(mailbox'[last'.channel],
                                        Len(mailbox[last'.channel]) + 1,
                                        Len(mailbox'[last'.channel]))} :
                    /\ mailbox'[last'.channel]
                         = mailbox[last'.channel] \o events
                    /\ OneInsertedPerRecord(events, db)]_vars

\* The second subscription, on the second connection, of a publication that
\* matches a record.
C9_Witness ==
    /\ SubscribeServed(last)
    /\ last.channel = "c2"
    /\ last.sent[1].params.sub_id = 2
    /\ \E s \in Subscriptions : Owned(s, "c1")
    /\ db = Records
    /\ Len(mailbox["c2"]) = MaxRecords

MethodCalled(l) ==
    /\ Dispatched(l, "method")
    /\ HasKey(l.data, "params")
    /\ ~Lacks(l.data, "name") /\ ~Lacks(l.data, "params")

(***************************************************************************)
(* C10: a method request with params.name and params.params present gets  *)
(* exactly one envelope with the request's `_id`: Error 'Not found' /      *)
(* 'Method <name> not found', with no handler invoked, when no method is   *)
(* registered under that name; otherwise the method is invoked exactly     *)
(* once with params.params and the envelope is Success with the returned   *)
(* value as params when the value is truthy, Error with that same value as *)
(* params when it is falsy.                                                *)
(***************************************************************************)
C10_MethodReply ==
    MethodCalled(last)
      => /\ Len(last.sent) = 1
         /\ last.sent[1]._id = last.data._id
         /\ IF last.data.params.name \notin server_methods
            THEN /\ last.sent[1].type = "Error"
                 /\ last.sent[1].params
                      = [name |-> "Not found",
                         message |-> <<"Method ", last.data.params.name,
                                       " not found">>]
                 /\ ~Invoked(last, "method")
            ELSE /\ Len(last.calls) = 2
                 /\ last.calls[2].fn = "method"
                 /\ last.calls[2].name = last.data.params.name
                 /\ last.calls[2].arg = last.data.params.params
                 /\ last.sent[1].params = JsonDumps(last.calls[2].ret)
                 /\ last.sent[1].type
                      = IF last.calls[2].ret \in {"", PyNone, PyFalse,
                                                 PyEmptyList, PyEmptyTuple}
                        THEN "Error" ELSE "Success"

\* A registered method returned a falsy value, sent back in an Error.
C10_Witness ==
    /\ MethodCalled(last)
    /\ Invoked(last, "method")
    /\ last.calls[2].ret = PyFalse
    /\ last.sent[1].type = "Error"
    /\ last.sent[1].params = [json |-> "false"]

\* The request is a geturl that reached recv_geturl with a url.
GeturlFor(l) ==
    /\ Dispatched(l, "geturl")
    /\ HasKey(l.data, "params")
    /\ HasKey(l.data.params, "url")

\* The route a url first matches in declared order, where it matches one.
Route(url) ==
    CHOOSE i \in 1..Len(ddp_urlpatterns) :
      /\ url \in ddp_urlpatterns[i].pattern
      /\ \A j \in 1..(i - 1) : url \notin ddp_urlpatterns[j].pattern

\* The live view v is of the route the url first matches.
OfRoute(v, url) ==
    v # NoView /\ v.cls = ddp_urlpatterns[Route(url)].callback

\* The positions of the calls of l equal to call.
Positions(l, call) == {i \in 1..Len(l.calls) : l.calls[i] = call}

(***************************************************************************)
(* C11: a geturl whose url first matches route R while the connection has  *)
(* no live view, or a live view of another route, invokes the old view's   *)
(* destroy hook exactly once (if there is an old view) and before the new  *)
(* view is constructed, constructs a view of route R bound to this channel *)
(* and runs its creation hook with the url, sends exactly one Success      *)
(* carrying the rendered markup, and leaves the connection with that view  *)
(* as its single live view.                                                *)
(***************************************************************************)
C11_NewView ==
    /\ [][(GeturlFor(last') /\ ~NoRoute(last'.data.params.url)
             /\ ~OfRoute(view[last'.channel], last'.data.params.url))
            => LET l == last'
                   url == l.data.params.url
                   old == view[l.channel]
                   new == view'[l.channel]
                   created == [fn |-> "callback", view |-> new.id,
                               cls |-> ddp_urlpatterns[Route(url)].callback,
                               channel |-> l.channel]
               IN /\ new # NoView
                  /\ new.cls = ddp_urlpatterns[Route(url)].callback
                  /\ new.channel = l.channel
                  /\ \A c \in Channels : view[c] # NoView => view[c].id # new.id
                  /\ CallCount(l, "ondestroy") = IF old = NoView THEN 0 ELSE 1
                  /\ CallCount(l, "callback") = 1
                  /\ CallCount(l, "oncreate") = 1
                  /\ ~Invoked(l, "onurl")
                  /\ \E k \in Positions(l, created) :
                       /\ k < Len(l.calls)
                       /\ l.calls[k + 1] = [fn |-> "oncreate", view |-> new.id,
                                            url |-> url]
                       /\ old # NoView
                            => \E j \in Positions(l, [fn |-> "ondestroy",
                                                     view |-> old.id]) : j < k
                  /\ l.sent = << [_id |-> l.data._id, type |-> "Success",
                                  params |-> Render(new)] >>]_vars
    /\ [](\A c \in Channels :
            view[c] # NoView
              => /\ view[c].channel = c
                 /\ \A d \in Channels \ {c} :
                      view[d] # NoView => view[d].id # view[c].id)

\* A view of the second route replaced the live view of the first.
C11_Witness ==
    /\ GeturlFor(last)
    /\ Invoked(last, "ondestroy")
    /\ Invoked(last, "oncreate")
    /\ view[last.channel].cls = "ViewB"
    /\ view[last.channel].id = 2
    /\ Len(last.sent) = 1

C12_WitnessRejected ==
    /\ GeturlFor(last)
    /\ NavigateRejected(last)
    /\ view[last.channel] # NoView
    /\ last.sent = <<>>

\* The calls of l made on a view or a view class.
HookCalls(l) ==
    {i \in 1..Len(l.calls) :
       l.calls[i].fn \in {"onurl", "ondestroy", "callback", "oncreate",
                          "render"}}

(***************************************************************************)
(* C13: a geturl acts on the first route, in declared order, whose pattern *)
(* matches the url and on no later one, also when that first match ends in *)
(* a rejected navigate; when no route matches, nothing is sent, no view    *)
(* hook is invoked and the connection's view is unchanged.                 *)
(***************************************************************************)
C13_FirstRouteOnly ==
    [][GeturlFor(last')
        => LET l == last'
               url == l.data.params.url
               old == view[l.channel]
               new == view'[l.channel]
           IN IF NoRoute(url)
              THEN l.sent = <<>> /\ HookCalls(l) = {} /\ new = old
              ELSE /\ \A i \in HookCalls(l) :
                        l.calls[i].fn = "callback"
                          => l.calls[i].cls
                               = ddp_urlpatterns[Route(url)].callback
                   /\ new # NoView
                   /\ new.cls = ddp_urlpatterns[Route(url)].callback
                   /\ CallCount(l, "callback") <= 1
                   /\ NavigateRejected(l)
                        => /\ HookCalls(l)
                                = {i \in 1..Len(l.calls) :
                                     l.calls[i].fn = "onurl"}
                           /\ new = old
                           /\ l.sent = <<>>]_vars

\* The first route's view rejects a url that the second route matches too.
C13_Witness ==
    /\ GeturlFor(last)
    /\ last.data.params.url = "/a/1"
    /\ NavigateRejected(last)
    /\ view[last.channel].cls = "ViewA"

\* No route matches the url asked for while a view is live.
C13_WitnessNoRoute ==
    /\ GeturlFor(last)
    /\ NoRoute(last.data.params.url)
    /\ view[last.channel] # NoView

(***************************************************************************)
(* C14: a disconnect() of a connection that holds a live view invokes that *)
(* view's ondestroy, so that a view is torn down either when geturl        *)
(* replaces it or when its connection is destroyed.                        *)
(***************************************************************************)
C14_DisconnectTearsDownView ==
    (last.op = "disconnect" /\ view[last.channel] # NoView)
      => \E i \in 1..Len(last.calls) :
           /\ last.calls[i].fn = "ondestroy"
           /\ last.calls[i].view = view[last.channel].id

\* The request is an unsubscribe that reached recv_unsubscribe with a name.
Unsubscribed(l) ==
    /\ Dispatched(l, "unsubscribe")
    /\ HasKey(l.data, "params")
    /\ HasKey(l.data.params, "name")

\* The subscriptions of channel c to the publication called name.
Named(c, name) ==
    {s \in Subscriptions : Owned(s, c) /\ s.publication = name}

(***************************************************************************)
(* C15: an unsubscribe request with params.name present gets exactly one   *)
(* envelope {_id, type 'unsubscribed', message 'Got unsub', params {name}} *)
(* and leaves the Subscriptions rows as they were: the named subscription  *)
(* is not removed, so the next change of the publication still raises a    *)
(* push for it and the next push dispatched to the connection is still     *)
(* sent.                                                                   *)
(***************************************************************************)
C15_UnsubscribeOnlyEchoes ==
    /\ [](Unsubscribed(last)
            => last.sent = << [_id |-> last.data._id, type |-> "unsubscribed",
                               message |-> "Got unsub",
                               params |-> [name |-> last.data.params.name]] >>)
    /\ [][Unsubscribed(last')
            => UNCHANGED <<Clients, Subscriptions, mailbox, session>>]_vars
    /\ [][(Unsubscribed(last) /\ last'.op = "publish")
            => \A s \in Named(last.channel, last.data.params.name) :
                 \E i \in (Len(mailbox[last.channel]) + 1)
                            ..Len(mailbox'[last.channel]) :
                   /\ mailbox'[last.channel][i].params.type = last'.data.type
                   /\ IF last'.data.type = "removed"
                      THEN mailbox'[last.channel][i].params.parent = s.parent
                      ELSE mailbox'[last.channel][i].params.instance.parent
                             = s.parent]_vars
    /\ [][(Unsubscribed(last) /\ last'.op = "handle_ddp"
             /\ last'.channel = last.channel)
            => /\ Len(last'.sent) = 1
               /\ last'.sent[1].type = "DDP"]_vars

\* An unsubscribe naming the publication both of the connection's
\* subscriptions are on, with a push waiting and a record matching.
C15_Witness ==
    /\ Unsubscribed(last)
    /\ Cardinality(Named(last.channel, last.data.params.name)) = 2
    /\ mailbox[last.channel] # <<>>
    /\ db # {}

(***************************************************************************)
(* C16: for a `handle.ddp` event handle_ddp sends exactly one DDP envelope *)
(* without `_id` when params.type is inserted, changed or removed, and     *)
(* nothing otherwise: inserted gives {type 'insert', params <instance>},   *)
(* changed gives {type 'change', params <instance>}, removed gives {type   *)
(* 'remove', params {_id, parent}} with only those two fields; the event   *)
(* changes no Clients row, Subscriptions row or view.                      *)
(***************************************************************************)
C16_HandleDdpMapping ==
    /\ [](last.op = "handle_ddp"
            => LET p == last.data.params IN
               IF p.type \in {"inserted", "changed", "removed"}
               THEN /\ Len(last.sent) = 1
                    /\ DOMAIN last.sent[1] = {"type", "params"}
                    /\ last.sent[1].type = "DDP"
                    /\ DOMAIN last.sent[1].params = {"type", "params"}
                    /\ p.type = "inserted"
                         => /\ last.sent[1].params.type = "insert"
                            /\ last.sent[1].params.params = p.instance
                    /\ p.type = "changed"
                         => /\ last.sent[1].params.type = "change"
                            /\ last.sent[1].params.params = p.instance
                    /\ p.type = "removed"
                         => /\ last.sent[1].params.type = "remove"
                            /\ last.sent[1].params.params
                                 = [_id |-> p._id, parent |-> p.parent]
               ELSE last.sent = <<>>)
    /\ [][last'.op = "handle_ddp"
            => UNCHANGED <<session, Clients, Subscriptions, view>>]_vars

\* A `removed` event carrying a third field is forwarded to a connection
\* that has a subscription and a view.
C16_Witness ==
    /\ last.op = "handle_ddp"
    /\ last.data.params.type = "removed"
    /\ HasKey(last.data.params, "instance")
    /\ Len(last.sent) = 1
    /\ Named(last.channel, "tasks") # {}
    /\ view[last.channel] # NoView

\* An event of a kind handle_ddp does not know is dispatched.
C16_WitnessUnknown ==
    /\ last.op = "handle_ddp"
    /\ last.data.params.type = "moved"
    /\ last.sent = <<>>

\* The receive call sent an Error envelope.
ReportedError(l) ==
    /\ Received(l)
    /\ \E i \in 1..Len(l.sent) : l.sent[i].type = "Error"

\* The names of the errors receive and its handlers report; a method's
\* falsy return value is reported with that value in place of a name.
ErrorKind(l) ==
    IF HasKey(l.sent[1].params, "name") THEN l.sent[1].params.name
    ELSE "falsy return"

(***************************************************************************)
(* C17: no reported error ends the connection.  After a receive call that  *)
(* sent an Error envelope (missing type, unknown type, Bad format,         *)
(* subscribe missing key, method not found, falsy method return) the       *)
(* session is still connected, its Clients row, Subscriptions and view are *)
(* as before the request, the Error envelope carries the request's `_id`,  *)
(* and the next well-formed request on the connection is served as on any  *)
(* other connected session.                                                *)
(***************************************************************************)
C17_ErrorsDoNotTerminate ==
    /\ [](ReportedError(last)
            => /\ session[last.channel] = "Connected"
               /\ last.exc = "none"
               /\ Len(last.sent) = 1
               /\ HasKey(last.sent[1], "_id")
               /\ last.sent[1]._id = last.data._id
               /\ RowsOf(last.channel) # {})
    /\ [][ReportedError(last')
            => UNCHANGED <<session, Clients, Subscriptions, view>>]_vars
    /\ [][(ReportedError(last) /\ Received(last')
             /\ last'.channel = last.channel /\ WellFormed(last'.data)
             /\ ~Unanswered(last'))
            => /\ OneCorrelatedReply(last')
               /\ last'.exc = "none"]_vars

\* A method returned a falsy value on a connection that holds a
\* subscription and a view.
C17_Witness ==
    /\ ReportedError(last)
    /\ ErrorKind(last) = "falsy return"
    /\ Named(last.channel, "tasks") # {}
    /\ view[last.channel] # NoView

(***************************************************************************)
(* C18: a subscribe request with params.name and params._id present, on a  *)
(* session whose channel has no Clients row, gets exactly one Error        *)
(* envelope with the request's `_id`, name 'Client not found' and message  *)
(* 'No client was found for this channel name'; no Subscriptions row is    *)
(* created and no exception leaves the handler.                            *)
(***************************************************************************)
C18_ClientNotFound ==
    (/\ Dispatched(last, "subscribe")
     /\ HasKey(last.data, "params")
     /\ ~Lacks(last.data, "name") /\ ~Lacks(last.data, "_id")
     /\ RowsOf(last.channel) = {})
      => /\ last.sent
              = << [_id |-> last.data._id, type |-> "Error",
                    params |->
                      [name |-> "Client not found",
                       message |->
                         <<"No client was found for this channel name">>]] >>
         /\ last.exc = "none"
         /\ ~Invoked(last, "save")

\* What the spec says tells two Subscriptions apart.
Triple(s) == <<s.client, s.parent, s.publication>>

(***************************************************************************)
(* C19: in every reachable state any two distinct Subscriptions rows       *)
(* differ in (Connection, parent, Publication); no sequence of subscribe   *)
(* requests, the same request repeated on one connection included, makes   *)
(* two rows with the same triple.                                          *)
(***************************************************************************)
C19_DistinctTriples ==
    \A s1, s2 \in Subscriptions : s1 # s2 => Triple(s1) # Triple(s2)

\* The component a DDP envelope is about: its parent and the record's id.
Component(m) == <<m.params.params.parent, m.params.params._id>>

\* How many envelopes of kind t about component k the log holds before j.
CountBefore(log, j, k, t) ==
    Cardinality({i \in 1..(j - 1) :
                   log[i].params.type = t /\ Component(log[i]) = k})

\* Every change and every remove in the log comes after an insert for the
\* same component that no earlier remove has undone.
InsertFirst(log) ==
    \A j \in 1..Len(log) :
      log[j].params.type \in {"change", "remove"}
        => CountBefore(log, j, Component(log[j]), "insert")
             > CountBefore(log, j, Component(log[j]), "remove")

(***************************************************************************)
(* C20: the DDP messages a session sends appear in the order the           *)
(* `handle.ddp` events arrived: each dispatch sends the translation of the *)
(* oldest waiting event, everything else only adds events behind those     *)
(* waiting (requests and their replies included), so for every record of a *)
(* subscription an `insert` precedes any `change` and any `remove`.        *)
(***************************************************************************)
C20_PushesInArrivalOrder ==
    /\ [](\A c \in Channels : InsertFirst(pushed[c]))
    /\ [][last'.op = "handle_ddp"
            => LET c == last'.channel IN
               /\ mailbox[c] # <<>>
               /\ last'.data = Head(mailbox[c])
               /\ mailbox'[c] = Tail(mailbox[c])
               /\ Len(last'.sent) = 1
               /\ pushed'[c] = pushed[c] \o last'.sent]_vars
    /\ [][last'.op # "handle_ddp"
            => /\ pushed' = pushed
               /\ \A c \in Channels :
                    /\ Len(mailbox'[c]) >= Len(mailbox[c])
                    /\ SubSeq(mailbox'[c], 1, Len(mailbox[c])) = mailbox[c]]_vars

\* An insert, a change and a remove of one component were sent in that
\* order, with a push about another record among them, and the session has
\* just answered a request.
C20_Witness ==
    /\ Len(pushed["c1"]) = MaxPushed
    /\ \E i, j, k \in 1..Len(pushed["c1"]) :
         /\ i < j /\ j < k
         /\ pushed["c1"][i].params.type = "insert"
         /\ pushed["c1"][j].params.type = "change"
         /\ pushed["c1"][k].params.type = "remove"
         /\ Component(pushed["c1"][i]) = Component(pushed["c1"][j])
         /\ Component(pushed["c1"][j]) = Component(pushed["c1"][k])
         /\ \E n \in (i + 1)..(k - 1) :
              Component(pushed["c1"][n]) # Component(pushed["c1"][i])
    /\ Received(last)
    /\ Len(last.sent) = 1

\* disconnect() has run for channel c and its Clients row is gone.
Removed(c) == session[c] = "Closed" /\ RowsOf(c) = {}

C21_WitnessDropped ==
    /\ last.op = "expire"
    /\ Removed(last.channel)
    /\ Subscriptions # {}

\* A disconnect runs while a push waits in the channel's mailbox.
C21_WitnessInFlight ==
    /\ last.op = "disconnect"
    /\ last.calls[1].deleted = 1
    /\ mailbox[last.channel] # <<>>

====
